---- MODULE Spec2Model ----
(***************************************************************************)
(* micrograd-rust: the scalar reverse-mode autodiff engine of src/lib.rs.  *)
(*                                                                         *)
(* A node record (Value_) lives in a reference-counted cell (Rc<Value_>);  *)
(* a Value handle is the address of a cell.  `heap` is the sequence of     *)
(* cells in allocation order, `held` counts the caller's handles on each   *)
(* cell, `counter` is the static id counter of ValueId::new.  `calls` is   *)
(* the history of the caller's calls (function, arguments, returned        *)
(* handle); the program does not read it.  backward is one start step      *)
(* (seed and build_topo) and one step per iteration of its reverse loop:   *)
(* `pc`, `root`, `topo`, `pos`, `grad_store` are its locals.               *)
(*                                                                         *)
(* f64 data are modelled as exact rationals [n, d] in lowest terms.  The   *)
(* transcendental exp is taken to base 2 instead of base e so that its     *)
(* results stay rational; it is applied to integer arguments only.         *)
(* IEEE infinities and NaN are not modelled: the builder actions draw      *)
(* their inputs from values on which every result is finite.               *)
(***************************************************************************)
EXTENDS Integers, Sequences, FiniteSets, TLC

\* ------------------------------------------------------------------ bounds
MaxLeaves == 2      \* leaves the caller constructs
MaxOps    == 2      \* builder, clone and write calls the caller makes
MaxArg    == 3      \* largest |argument| given to exp, tanh and as exponent
MaxMag    == 8      \* largest numerator / denominator of a builder's operand

\* ------------------------------------------------------- rational numbers
Abs(i) == IF i < 0 THEN -i ELSE i

RECURSIVE GCD(_, _)
GCD(a, b) == IF b = 0 THEN a ELSE GCD(b, a % b)

\* n/d in lowest terms with a positive denominator (d # 0 required)
Norm(n, d) ==
    LET s == IF d < 0 THEN -1 ELSE 1
        g == GCD(Abs(n), Abs(d))
    IN  [n |-> (s * n) \div g, d |-> (s * d) \div g]

R(i) == [n |-> i, d |-> 1]
Zero == R(0)
One  == R(1)

\* sums over the least common denominator
RAdd(x, y) ==
    LET g == GCD(x.d, y.d)
    IN  Norm(x.n * (y.d \div g) + y.n * (x.d \div g), (x.d \div g) * y.d)
RNeg(x) == [n |-> -x.n, d |-> x.d]
RSub(x, y) == RAdd(x, RNeg(y))
RMul(x, y) == Norm(x.n * y.n, x.d * y.d)
RDiv(x, y) == Norm(x.n * y.d, x.d * y.n)
RGt(x, y)  == x.n * y.d > y.n * x.d
RMax(x, y) == IF RGt(y, x) THEN y ELSE x
IsInt(x)   == x.d = 1

RECURSIVE RPowNat(_, _)
RPowNat(x, k) == IF k = 0 THEN One ELSE RMul(x, RPowNat(x, k - 1))

\* f64::powf for an integer exponent y
powf(x, y) == IF y.n >= 0 THEN RPowNat(x, y.n) ELSE RDiv(One, RPowNat(x, -y.n))

\* f64::powi
powi(x, k) == RPowNat(x, k)

\* f64::exp, to base 2, for an integer argument
f64_exp(x) == powf(R(2), x)

\* ------------------------------------------------------------------ nodes
VARIABLES heap, held, counter, calls, pc, root, topo, pos, grad_store

vars == <<heap, held, counter, calls, pc, root, topo, pos, grad_store>>

\* Option<Op>: None, Binary(lhs, rhs, BinaryOp), Unary(x, UnaryOp)
None == [kind |-> "None", lhs |-> 0, rhs |-> 0, op |-> "-"]
Binary(l, r, o) == [kind |-> "Binary", lhs |-> l, rhs |-> r, op |-> o]
Unary(x, o) == [kind |-> "Unary", lhs |-> x, rhs |-> 0, op |-> o]

\* The allocator state threaded through the builder functions: the cells,
\* the id counter, and the handle the last call returned.
St(h, c, r) == [heap |-> h, counter |-> c, ret |-> r]

\* ValueId::new: COUNTER.fetch_add(1)
ValueId_new(st) == st.counter

\* Value(Rc::new(Value_ { data, op, label, id: ValueId::new() }))
Rc_new(st, data, op, label) ==
    St(Append(st.heap, [data |-> data, op |-> op, label |-> label,
                        id |-> ValueId_new(st)]),
       st.counter + 1,
       Len(st.heap) + 1)

\* Value::new / Value::from / Value::new_with_label
new(st, x) == Rc_new(st, x, None, "")

add(st, a, b) ==
    Rc_new(st, RAdd(st.heap[a].data, st.heap[b].data), Binary(a, b, "Add"), "")

mul(st, a, b) ==
    Rc_new(st, RMul(st.heap[a].data, st.heap[b].data), Binary(a, b, "Mul"), "")

pow(st, a, b) ==
    Rc_new(st, powf(st.heap[a].data, st.heap[b].data), Binary(a, b, "Pow"), "")

exp(st, a) ==
    Rc_new(st, f64_exp(st.heap[a].data), Unary(a, "Exp"), "")

tanh(st, a) ==
    LET x == st.heap[a].data
        e == f64_exp(RMul(x, R(2)))
        t == RDiv(RSub(e, One), RAdd(e, One))
    IN  Rc_new(st, t, Unary(a, "Tanh"), "")

relu(st, a) ==
    Rc_new(st, RMax(st.heap[a].data, Zero), None, "ReLU")

sqrt(st, a) == mul(st, a, a)

neg(st, a) ==
    LET s1 == new(st, R(-1))
    IN  mul(s1, a, s1.ret)

\* variant of sub: a primitive node with BinaryOp::Sub provenance
sub_primitive(st, a, b) ==
    Rc_new(st, RSub(st.heap[a].data, st.heap[b].data), Binary(a, b, "Sub"), "")

sub(st, a, b) ==
    LET s1 == neg(st, b)
    IN  add(s1, a, s1.ret)

div(st, a, b) ==
    LET s1 == new(st, R(-1))
        s2 == pow(s1, b, s1.ret)
    IN  mul(s2, a, s2.ret)

\* bin_trait!($trait<f64> for Value): Value::$fn1(&self, &Value::from(rhs))
bin_f64(st, f, a, x) ==
    LET s1 == new(st, x)
    IN  CASE f = "add" -> add(s1, a, s1.ret)
          [] f = "mul" -> mul(s1, a, s1.ret)
          [] f = "sub" -> sub(s1, a, s1.ret)
          [] f = "div" -> div(s1, a, s1.ret)

\* r_bin_trait!($trait<Value> for f64): fn $fn1(self, rhs) { rhs $op self }
r_bin(st, f, x, v) == bin_f64(st, f, v, x)

\* ----------------------------------------------------------------- inputs
\* the numbers the caller passes to Value::new and to the f64 overloads
Vals == {R(-1), R(0), R(2)}

Handles == {a \in 1..Len(heap) : held[a] > 0}

\* the handles a builder is applied to: those whose value is small enough
\* for the model's integer arithmetic
Args == {a \in Handles : Abs(heap[a].data.n) <= MaxMag /\ heap[a].data.d <= MaxMag}

Cur == St(heap, counter, 0)

SmallInt(x) == IsInt(x) /\ Abs(x.n) <= MaxArg

NumLeaves == Cardinality({i \in 1..Len(calls) : calls[i].fn = "new"})
NumOps    == Cardinality({i \in 1..Len(calls) : calls[i].fn # "new"})

Call(f, a, b, x, r) == [fn |-> f, a |-> a, b |-> b, x |-> x, ret |-> r]

\* The caller keeps the handle the call returned; cells allocated for the
\* temporaries of a derived operation have no handle of the caller.
Commit(st, f, a, b, x) ==
    /\ heap' = st.heap
    /\ counter' = st.counter
    /\ held' = [i \in 1..Len(st.heap) |->
                  IF i <= Len(heap) THEN held[i]
                  ELSE IF i = st.ret THEN 1 ELSE 0]
    /\ calls' = Append(calls, Call(f, a, b, x, st.ret))
    /\ UNCHANGED <<pc, root, topo, pos, grad_store>>

Init ==
    /\ heap = <<>>
    /\ held = <<>>
    /\ counter = 1
    /\ calls = <<>>
    /\ pc = "idle"
    /\ root = 0
    /\ topo = <<>>
    /\ pos = 0
    /\ grad_store = <<>>

New ==
    /\ pc = "idle"
    /\ NumLeaves < MaxLeaves
    /\ \E x \in Vals : Commit(new(Cur, x), "new", 0, 0, x)

Add ==
    /\ pc = "idle" /\ NumOps < MaxOps
    /\ \E a, b \in Args : Commit(add(Cur, a, b), "add", a, b, Zero)

Mul ==
    /\ pc = "idle" /\ NumOps < MaxOps
    /\ \E a, b \in Args : Commit(mul(Cur, a, b), "mul", a, b, Zero)

\* the base is not 0 (0 to a negative power is infinite) and the exponent is
\* a small integer
Pow ==
    /\ pc = "idle" /\ NumOps < MaxOps
    /\ \E a, b \in Args :
          /\ heap[a].data # Zero
          /\ SmallInt(heap[b].data)
          /\ Commit(pow(Cur, a, b), "pow", a, b, Zero)

\* the argument is a small natural number: backward applies exp to the
\* result as well, which must then be an integer
Exp ==
    /\ pc = "idle" /\ NumOps < MaxOps
    /\ \E a \in Args :
          /\ SmallInt(heap[a].data) /\ heap[a].data.n >= 0
          /\ Commit(exp(Cur, a), "exp", a, 0, Zero)

Tanh ==
    /\ pc = "idle" /\ NumOps < MaxOps
    /\ \E a \in Args :
          /\ SmallInt(heap[a].data)
          /\ Commit(tanh(Cur, a), "tanh", a, 0, Zero)

Relu ==
    /\ pc = "idle" /\ NumOps < MaxOps
    /\ \E a \in Args : Commit(relu(Cur, a), "relu", a, 0, Zero)

Sqrt ==
    /\ pc = "idle" /\ NumOps < MaxOps
    /\ \E a \in Args : Commit(sqrt(Cur, a), "sqrt", a, 0, Zero)

Neg ==
    /\ pc = "idle" /\ NumOps < MaxOps
    /\ \E a \in Args : Commit(neg(Cur, a), "neg", a, 0, Zero)

Sub ==
    /\ pc = "idle" /\ NumOps < MaxOps
    /\ \E a, b \in Args : Commit(sub(Cur, a, b), "sub", a, b, Zero)

Div ==
    /\ pc = "idle" /\ NumOps < MaxOps
    /\ \E a, b \in Args :
          /\ heap[b].data # Zero
          /\ Commit(div(Cur, a, b), "div", a, b, Zero)

\* x + v, x * v, x - v, x / v with the number on the left
RBin ==
    /\ pc = "idle" /\ NumOps < MaxOps
    /\ \E f \in {"add", "mul", "sub", "div"}, x \in Vals, v \in Args :
          /\ (f = "div") => x # Zero      \* the code divides by x
          /\ Commit(r_bin(Cur, f, x, v), "r_" \o f, 0, v, x)

\* ------------------------------------------------------------ backward
\* GradStore::new (a store pre-populated with an entry for every id issued
\* so far is the variant GradStore_prepopulated)
GradStore_prepopulated == [i \in 1..(counter - 1) |-> Zero]

GradStore_new == << >>

\* HashMap::insert
insert(gs, id, x) == (id :> x) @@ gs

\* GradStore::or_insert: the entry of id, inserted as 0.0 when absent (the
\* variant or_insert_overwrite resets an entry that is present)
or_insert_overwrite(gs, id) == (id :> Zero) @@ gs

or_insert(gs, id) == IF id \in DOMAIN gs THEN gs ELSE gs @@ (id :> Zero)

\* let g = grad_store.or_insert(id); *g += delta;
Accumulate(gs, id, delta) ==
    LET g == or_insert(gs, id) IN [g EXCEPT ![id] = RAdd(@, delta)]

\* Variants of build_topo: one appends a node before its operands, one
\* lacks the visited check.
RECURSIVE build_topo_preorder(_, _)
build_topo_preorder(value, st) ==
    IF heap[value].id \in st.visited THEN st
    ELSE LET s1 == [visited |-> st.visited \cup {heap[value].id},
                    topo |-> Append(st.topo, value)]
             op == heap[value].op
         IN  CASE op.kind = "Binary" ->
                    build_topo_preorder(op.rhs, build_topo_preorder(op.lhs, s1))
               [] op.kind = "Unary" -> build_topo_preorder(op.lhs, s1)
               [] OTHER -> s1

RECURSIVE build_topo_novisit(_, _)
build_topo_novisit(value, st) ==
    LET op == heap[value].op
        s2 == CASE op.kind = "Binary" ->
                     build_topo_novisit(op.rhs, build_topo_novisit(op.lhs, st))
                [] op.kind = "Unary" -> build_topo_novisit(op.lhs, st)
                [] OTHER -> st
    IN  [s2 EXCEPT !.topo = Append(@, value)]

\* fn build_topo(value, visited, topo): st = [visited, topo]
RECURSIVE build_topo(_, _)
build_topo(value, st) ==
    IF heap[value].id \in st.visited THEN st
    ELSE LET s1 == [st EXCEPT !.visited = @ \cup {heap[value].id}]
             op == heap[value].op
             s2 == CASE op.kind = "Binary" ->
                          build_topo(op.rhs, build_topo(op.lhs, s1))
                     [] op.kind = "Unary" -> build_topo(op.lhs, s1)
                     [] OTHER -> s1
         IN  [s2 EXCEPT !.topo = Append(@, value)]

\* The body of `for v in topo.iter().rev()` for one v: the store after the
\* backward rule of v, or a panic.
Panic == [panic |-> TRUE, gs |-> << >>]
Ok(gs) == [panic |-> FALSE, gs |-> gs]

loop_body(gs, v) ==
    IF heap[v].id \notin DOMAIN gs THEN Panic        \* get(&v.id).unwrap()
    ELSE
    LET v_grad == gs[heap[v].id]
        op == heap[v].op
        l == heap[op.lhs]
        r == heap[op.rhs]
    IN  CASE op.kind = "None" -> Ok(gs)
          [] op.kind = "Binary" /\ op.op = "Add" ->
               Ok(Accumulate(Accumulate(gs, l.id, v_grad), r.id, v_grad))
          [] op.kind = "Binary" /\ op.op = "Mul" ->
               Ok(Accumulate(Accumulate(gs, l.id, RMul(r.data, v_grad)),
                             r.id, RMul(l.data, v_grad)))
          [] op.kind = "Binary" /\ op.op \in {"Div", "Sub"} -> Panic
          [] op.kind = "Binary" /\ op.op = "Pow" ->
               Ok(Accumulate(
                    Accumulate(gs, l.id,
                       RMul(RMul(r.data, powf(l.data, RSub(r.data, One))), v_grad)),
                    r.id, RMul(powf(l.data, r.data), v_grad)))
          [] op.kind = "Unary" /\ op.op = "Tanh" ->
               Ok(Accumulate(gs, l.id,
                     RMul(RSub(One, powi(heap[v].data, 2)), v_grad)))
          [] op.kind = "Unary" /\ op.op = "Exp" ->
               Ok(Accumulate(gs, l.id, RMul(f64_exp(heap[v].data), v_grad)))
          [] op.kind = "Unary" /\ op.op = "Relu" ->
               Ok(Accumulate(gs, l.id,
                     RMul(IF RGt(l.data, Zero) THEN One ELSE Zero, v_grad)))

\* backward(&self): seed the store, build the order
Backward ==
    /\ pc = "idle"
    /\ \E r \in Handles :
          /\ root' = r
          /\ grad_store' = insert(GradStore_new, heap[r].id, One)
          /\ topo' = build_topo(r, [visited |-> {}, topo |-> << >>]).topo
          /\ pos' = Len(topo')
          /\ pc' = "walk"
    /\ UNCHANGED <<heap, held, counter, calls>>

\* one iteration of the reverse walk
Step ==
    /\ pc = "walk" /\ pos >= 1
    /\ LET res == loop_body(grad_store, topo[pos])
       IN  IF res.panic
           THEN pc' = "panic" /\ UNCHANGED <<pos, grad_store>>
           ELSE /\ grad_store' = res.gs
                /\ pos' = pos - 1
                /\ pc' = IF pos = 1 THEN "done" ELSE "walk"
    /\ UNCHANGED <<heap, held, counter, calls, root, topo>>

\* the caller is done with the returned store
Finish ==
    /\ pc = "done"
    /\ pc' = "idle" /\ root' = 0 /\ topo' = << >> /\ pos' = 0
    /\ grad_store' = << >>
    /\ UNCHANGED <<heap, held, counter, calls>>

Next ==
    \/ New \/ Add \/ Mul \/ Pow \/ Exp \/ Tanh \/ Relu \/ Sqrt \/ Neg
    \/ Sub \/ Div \/ RBin
    \/ Backward \/ Step \/ Finish

Spec == Init /\ [][Next]_vars

\* ------------------------------------------------- handles and DerefMut
\* Rc::strong_count: the caller's handles plus the operand slots of nodes
Slots(c, a) == (IF c.op.lhs = a THEN 1 ELSE 0) + (IF c.op.rhs = a THEN 1 ELSE 0)

RECURSIVE SlotSum(_, _)
SlotSum(k, a) == IF k = 0 THEN 0 ELSE Slots(heap[k], a) + SlotSum(k - 1, a)

strong_count(a) == held[a] + SlotSum(Len(heap), a)

\* impl DerefMut for Value: Rc::make_mut(&mut self.0).  A cell with one
\* reference is handed out as it is; otherwise the record is cloned (derived
\* Clone of Value_: every field, the id included) into a fresh cell and the
\* handle moves to it.  [heap, held, cell]
deref_mut(a) ==
    IF strong_count(a) = 1
    THEN [heap |-> heap, held |-> held, cell |-> a]
    ELSE [heap |-> Append(heap, heap[a]),
          held |-> Append([held EXCEPT ![a] = @ - 1], 1),
          cell |-> Len(heap) + 1]

\* Value::clone (derived: Rc::clone)
Clone ==
    /\ pc = "idle" /\ NumOps < MaxOps
    /\ \E a \in Handles :
          /\ held' = [held EXCEPT ![a] = @ + 1]
          /\ calls' = Append(calls, Call("clone", a, 0, Zero, a))
    /\ UNCHANGED <<heap, counter, pc, root, topo, pos, grad_store>>

\* v.data = x through a mutable handle
WriteData ==
    /\ pc = "idle" /\ NumOps < MaxOps
    /\ \E a \in Handles, x \in Vals :
          LET m == deref_mut(a)
          IN  /\ heap' = [m.heap EXCEPT ![m.cell].data = x]
              /\ held' = m.held
              /\ calls' = Append(calls, Call("write", a, 0, x, m.cell))
    /\ UNCHANGED <<counter, pc, root, topo, pos, grad_store>>

\* v.label = "..." through a mutable handle
WriteLabel ==
    /\ pc = "idle" /\ NumOps < MaxOps
    /\ \E a \in Handles :
          LET m == deref_mut(a)
          IN  /\ heap' = [m.heap EXCEPT ![m.cell].label = "x"]
              /\ held' = m.held
              /\ calls' = Append(calls, Call("write", a, 0, Zero, m.cell))
    /\ UNCHANGED <<counter, pc, root, topo, pos, grad_store>>

NextMut == Next \/ Clone \/ WriteData \/ WriteLabel

SpecMut == Init /\ [][NextMut]_vars

\* =============================================================== claims
Cells == 1..Len(heap)

Operands(c) ==
    CASE heap[c].op.kind = "Binary" -> {heap[c].op.lhs, heap[c].op.rhs}
      [] heap[c].op.kind = "Unary" -> {heap[c].op.lhs}
      [] OTHER -> {}

\* the nodes reachable from r through provenance edges
RECURSIVE ReachFrom(_)
ReachFrom(S) ==
    LET T == S \cup UNION {Operands(c) : c \in S}
    IN  IF T = S THEN S ELSE ReachFrom(T)

Reach(r) == ReachFrom({r})

Consumers(n) == {c \in Reach(root) : n \in Operands(c)}

InPass == pc \in {"walk", "done", "panic"}

Position(n) == CHOOSE i \in 1..Len(topo) : topo[i] = n

\* ---- C1
AddMulOnly(r) ==
    \A n \in Reach(r) :
        \/ heap[n].op.kind = "None"
        \/ heap[n].op.kind = "Binary" /\ heap[n].op.op \in {"Add", "Mul"}

\* local factor x gradient of c, summed over the operand positions of c that
\* n occupies: the factor is 1 for add, the other operand's value for mul
Contribution(c, n) ==
    LET o == heap[c].op
        g == grad_store[heap[c].id]
        fl == IF o.op = "Add" THEN One ELSE heap[o.rhs].data
        fr == IF o.op = "Add" THEN One ELSE heap[o.lhs].data
    IN  RAdd(IF o.lhs = n THEN RMul(fl, g) ELSE Zero,
             IF o.rhs = n THEN RMul(fr, g) ELSE Zero)

RECURSIVE SumContributions(_, _)
SumContributions(S, n) ==
    IF S = {} THEN Zero
    ELSE LET c == CHOOSE c \in S : TRUE
         IN  RAdd(Contribution(c, n), SumContributions(S \ {c}, n))

ExpectedGrad(n) == SumContributions(Consumers(n), n)

\* C1: for a root whose graph is made of leaves, add and mul, the store
\* returned by backward holds 1 for the root and, for every other reachable
\* node, the sum over its consumers and operand positions of local factor x
\* consumer gradient.
C1_GradientSums ==
    (pc = "done" /\ AddMulOnly(root)) =>
        /\ grad_store[heap[root].id] = One
        /\ \A n \in Reach(root) \ {root} :
              /\ heap[n].id \in DOMAIN grad_store
              /\ grad_store[heap[n].id] = ExpectedGrad(n)

\* c = a + a has been differentiated: a's gradient is 2
C1_Witness ==
    /\ pc = "done"
    /\ heap[root].op.kind = "Binary" /\ heap[root].op.op = "Add"
    /\ heap[root].op.lhs = heap[root].op.rhs
    /\ grad_store[heap[heap[root].op.lhs].id] = R(2)

\* ---- C2
\* C2: the topological order of a pass holds exactly the nodes reachable
\* from the root, each once, every operand strictly before its consumer.
C2_TopoOrder ==
    InPass =>
        /\ {topo[i] : i \in 1..Len(topo)} = Reach(root)
        /\ \A i, j \in 1..Len(topo) : i # j => topo[i] # topo[j]
        /\ \A i \in 1..Len(topo) : \A o \in Operands(topo[i]) :
              \E j \in 1..(i - 1) : topo[j] = o

\* an order was built for a graph in which one node has two consumers
C2_Witness ==
    /\ InPass
    /\ \E n \in Reach(root) : Cardinality(Consumers(n)) >= 2

\* ---- C3
Arg(i) == heap[calls[i].a]
Ret(i) == heap[calls[i].ret]

\* C3: relu(a) yields a node with value max(0, a.value) and provenance
\* Unary(a, Relu); a pass rooted at it gives a the gradient 1 if a.value > 0
\* and 0 otherwise.
C3_ReluProvenance ==
    \A i \in 1..Len(calls) : calls[i].fn = "relu" =>
        /\ Ret(i).data = RMax(Arg(i).data, Zero)
        /\ Ret(i).op = Unary(calls[i].a, "Relu")
        /\ (pc = "done" /\ root = calls[i].ret) =>
              /\ Arg(i).id \in DOMAIN grad_store
              /\ grad_store[Arg(i).id] =
                    (IF RGt(Arg(i).data, Zero) THEN One ELSE Zero)

\* ---- C4
\* C4: for v = exp(a) with accumulated gradient g, backward adds
\* exp(a.value) x g = v.value x g to a's entry.  Stated where v is the only
\* consumer of a: a's entry is then exactly v.value x g.
C4_ExpGradient ==
    pc = "done" =>
        \A v \in Reach(root) :
            (heap[v].op.kind = "Unary" /\ heap[v].op.op = "Exp"
               /\ Consumers(heap[v].op.lhs) = {v}) =>
                grad_store[heap[heap[v].op.lhs].id] =
                    RMul(heap[v].data, grad_store[heap[v].id])

\* ---- C5
\* C5: no two distinct node records carry the same id.
C5_UniqueIds ==
    \A a, b \in Cells : a # b => heap[a].id # heap[b].id

\* ---- C6
\* C6: no step changes the data or the provenance of a node that exists.
C6_NodesImmutable ==
    [][\A a \in Cells : /\ heap'[a].data = heap[a].data
                        /\ heap'[a].op = heap[a].op]_vars

\* ---- C7
UnreachableLeaves == {l \in Cells : heap[l].op.kind = "None" /\ l \notin Reach(root)}

\* C7: a leaf that is not reachable from the root is not in the order of
\* the pass, has no entry in the gradient store, and the pass does not panic.
C7_UnusedLeaf ==
    InPass =>
        \A l \in UnreachableLeaves :
            /\ \A i \in 1..Len(topo) : topo[i] # l
            /\ heap[l].id \notin DOMAIN grad_store
            /\ pc # "panic"

\* a pass has returned while a leaf the caller constructed is not reachable
C7_Witness ==
    /\ pc = "done"
    /\ \E i \in 1..Len(calls) :
          calls[i].fn = "new" /\ calls[i].ret \in UnreachableLeaves

\* ---- C8
Processed(c) == \E j \in (pos + 1)..Len(topo) : topo[j] = c

\* C8: when the walk reads the gradient of topo[pos], every consumer of that
\* node reachable from the root has been processed, and the step leaves the
\* gradient of that node and of every node processed before unchanged.
C8_GradientFinal ==
    [][(pc = "walk") =>
          /\ \A c \in Consumers(topo[pos]) : Processed(c)
          /\ \A k \in pos..Len(topo) :
                /\ heap[topo[k]].id \in DOMAIN grad_store
                /\ grad_store'[heap[topo[k]].id] = grad_store[heap[topo[k]].id]
      ]_vars

\* the walk is about to read a node that two consumers have added to
C8_Witness ==
    /\ pc = "walk"
    /\ Cardinality(Consumers(topo[pos])) >= 2
    /\ \A c \in Consumers(topo[pos]) : Processed(c)

\* ---- C9
\* C9: no pass over a graph made by the constructors and builders panics:
\* the node the walk is about to read has a gradient entry, and no node
\* carries Sub or Div provenance.
C9_NoPanic ==
    /\ pc # "panic"
    /\ \A a \in Cells : heap[a].op.op \notin {"Sub", "Div"}
    /\ (pc = "walk") => heap[topo[pos]].id \in DOMAIN grad_store

\* a pass rooted at the result of sub or div has returned
C9_Witness ==
    /\ pc = "done"
    /\ \E i \in 1..Len(calls) :
          calls[i].fn \in {"sub", "div"} /\ calls[i].ret = root

\* ---- C10
V(i) == heap[calls[i].b].data

\* C10: with the number x on the left, x + v, x * v, x - v and x / v have
\* the values x + v.value, x * v.value, x - v.value and x / v.value.
C10_LeftNumberOrder ==
    \A i \in 1..Len(calls) :
        /\ calls[i].fn = "r_add" => Ret(i).data = RAdd(calls[i].x, V(i))
        /\ calls[i].fn = "r_mul" => Ret(i).data = RMul(calls[i].x, V(i))
        /\ calls[i].fn = "r_sub" => Ret(i).data = RSub(calls[i].x, V(i))
        /\ (calls[i].fn = "r_div" /\ V(i) # Zero) =>
              Ret(i).data = RDiv(calls[i].x, V(i))
====
